---- MODULE Spec2Model ----
(***************************************************************************)
(* randomtemp: a process proxy that resolves the real executable to run,   *)
(* then runs it in a fresh temporary directory, retrying on failure.       *)
(* Model of src/src/main.rs (the cfg(not(windows)) build).                 *)
(***************************************************************************)
EXTENDS Integers, Sequences, FiniteSets, TLC

VARIABLES
    envExecutable,   \* RANDOMTEMP_EXECUTABLE: <<>> when unset, <<path>> when set
    envBaseDir,      \* RANDOMTEMP_BASEDIR: <<>> when unset, <<dir>> when set
    envMaxTrial,     \* RANDOMTEMP_MAXTRIAL: <<>> when unset, <<string>> when set
    searchPath,      \* PATH: the sequence of directories `which` walks
    files,           \* the executables on disk, as paths [dir, name]
    currentExe,      \* env::current_exe(): <<path>>, or <<>> when it fails
    currentDirOk,    \* whether env::current_dir() succeeds
    overflowChecks,  \* the build: TRUE = overflow checks on (dev), FALSE = off (release)
    pc,              \* position in main
    executable,      \* main's `executable`: <<>> before resolution, then <<path>>
    cwd,             \* main's `cwd`
    max_trial,       \* main's `max_trial`
    retry_times,     \* main's `retry_times`
    last_exit_code,  \* main's `last_exit_code`
    status,          \* the ExitStatus try_run_with_new_temp returned last
    tmp_dir,         \* the TempDir held by try_run_with_new_temp: <<>> or <<name>>
    baseEntries,     \* names of the entries that exist under the base directory
    foreign,         \* the entries under the base directory the tool does not own
    args,            \* env::args().skip(1): the arguments to forward
    child,           \* the running child: <<>> or
                     \* <<[image, program, argv, tmpdir]>>
    stdout,          \* the N of each "Retry attempt: N" line written, in order
    stderr,          \* the diagnostics written to the error stream, in order
    exitCode,        \* the process exit code: <<>> while running, then <<code>>
    launched,        \* history: how many children have been launched
    successAt,       \* history: the attempt on which a child first exited 0, else 0
    usedNames,       \* history: the names of the scratch directories already released
    created          \* history: how many scratch directories have been created

vars == <<envExecutable, envBaseDir, envMaxTrial, searchPath, files, currentExe,
          currentDirOk, overflowChecks, pc, executable, cwd, max_trial,
          retry_times, last_exit_code, status, tmp_dir, baseEntries, foreign,
          args, child, stdout, stderr, exitCode, launched, successAt,
          usedNames, created>>

envVars == <<envExecutable, envBaseDir, envMaxTrial, searchPath, files,
             currentExe, currentDirOk, overflowChecks, foreign, args>>

(***************************************************************************)
(* Bounds of the model.                                                    *)
(***************************************************************************)
\* The most children one run of the model launches (the release build's
\* wrapped counter would otherwise launch without end).
MaxLaunches == 258

(***************************************************************************)
(* Program constants.                                                      *)
(***************************************************************************)
DEFAULT_MAX_TRIAL == 3
U8Max == 255
PanicExitCode == 101
ShellNotFound == 127

(***************************************************************************)
(* Option values, as sequences of length at most one.                      *)
(***************************************************************************)
None == <<>>
Some(x) == <<x>>
IsSome(o) == o /= <<>>
Unwrap(o) == o[1]

(***************************************************************************)
(* Paths.  A path is [dir, name]; name is the sequence of the characters   *)
(* of the last component.                                                  *)
(***************************************************************************)
NoDir == ""
AbsDirs == {"/a", "/b"}
RelDirs == {"sub"}

NameRt == <<"r", "t">>
NameRtExe == <<"r", "t", ".", "x">>
NameCc == <<"c", "c">>
NameCcExe == <<"c", "c", ".", "x">>
NameEmpty == <<>>
Names == {NameRt, NameRtExe, NameCc, NameCcExe}

MkPath(d, n) == [dir |-> d, name |-> n]

\* Path::is_absolute
is_absolute_path(p) == p.dir \in AbsDirs

\* Position of the last "." of a name, 0 when there is none.
LastDot(n) ==
    LET dots == {i \in 1..Len(n) : n[i] = "."}
    IN  IF dots = {} THEN 0 ELSE CHOOSE i \in dots : \A j \in dots : j <= i

\* Path::file_name: None for the empty path.
get_file_name(pbopt) ==
    IF pbopt = None THEN None
    ELSE IF Unwrap(pbopt).name = <<>> THEN None
    ELSE Some(Unwrap(pbopt).name)

\* Path::file_stem: the name up to its last ".", the whole name when it has
\* no "." or only a leading one.
get_file_stem(pbopt) ==
    LET fn == get_file_name(pbopt)
    IN  IF fn = None THEN None
        ELSE LET n == Unwrap(fn)
                 d == LastDot(n)
             IN  IF d <= 1 THEN Some(n) ELSE Some(SubSeq(n, 1, d - 1))

\* Path::extension: the part after the last ".", None when file_stem is the
\* whole name.
Extension(p) ==
    LET fn == get_file_name(Some(p))
    IN  IF fn = None THEN None
        ELSE LET n == Unwrap(fn)
                 d == LastDot(n)
             IN  IF d <= 1 THEN None ELSE Some(SubSeq(n, d + 1, Len(n)))

is_same_file_stem(pbopt1, pbopt2) ==
    LET fs1 == get_file_stem(pbopt1)
        fs2 == get_file_stem(pbopt2)
    IN  IF IsSome(fs1) /\ IsSome(fs2) THEN Unwrap(fs1) = Unwrap(fs2) ELSE FALSE

(***************************************************************************)
(* Results: Ok(path) or Err(message).                                      *)
(***************************************************************************)
Ok(p) == [ok |-> TRUE, val |-> Some(p), msg |-> ""]
Err(m) == [ok |-> FALSE, val |-> None, msg |-> m]

MsgCannotFind == "Cannot find which executable to pretend, either specify RANDOMTEMP_EXECUTABLE through the environmental variables or rename the executable to another one in PATH"
MsgInvalidExecutable == "RANDOMTEMP_EXECUTABLE points to an invalid executable"
MsgNoCurrentExe == "Cannot get the current working executable"
MsgNoCurrentDir == "Cannot get the current working directory"
MsgBaseDir == "The directory specified in RANDOMTEMP_BASEDIR doesn't exist"
MsgMaxTrial == "RANDOMTEMP_MAXTRIAL is not valid number in 0..256"
MsgTempDir == "Cannot create temporary directory"
MsgLaunch == "failed to execute process"
MsgOverflow == "attempt to add with overflow"
SelfPretend == ""

(***************************************************************************)
(* The resolver.                                                           *)
(***************************************************************************)
\* which::which(name) for a bare file name: the first directory of PATH that
\* holds an executable of exactly that name.
Which(name, path, fs) ==
    LET hits == {i \in 1..Len(path) : MkPath(path[i], name) \in fs}
    IN  IF hits = {} THEN None
        ELSE LET i == CHOOSE i \in hits : \A j \in hits : i <= j
             IN  Some(MkPath(path[i], name))

\* find_executable_in_path_by_name without the comparison with the running
\* binary's path.
by_name_without_self_check(p, cp, path, fs) ==
    LET f == get_file_name(Some(p))
    IN  IF f = None THEN None ELSE Which(Unwrap(f), path, fs)

find_executable_in_path_by_name(p, cp, path, fs) ==
    LET f == get_file_name(Some(p))
    IN  IF f = None THEN None
        ELSE LET np == Which(Unwrap(f), path, fs)
             IN  IF np = None THEN None
                 ELSE IF Unwrap(np) = cp THEN None ELSE np

get_current_exe_pathbuf(cur) ==
    IF cur = None THEN Err(MsgNoCurrentExe) ELSE Ok(Unwrap(cur))

\* find_executable_in_path settling for the running binary when the search
\* finds nothing else.
find_in_path_or_self(cur, path, fs) ==
    LET pr == get_current_exe_pathbuf(cur)
    IN  IF ~pr.ok THEN pr
        ELSE LET p == Unwrap(pr.val)
                 r == find_executable_in_path_by_name(p, p, path, fs)
             IN  IF r = None THEN Ok(p) ELSE Ok(Unwrap(r))

find_executable_in_path(cur, path, fs) ==
    LET pr == get_current_exe_pathbuf(cur)
    IN  IF ~pr.ok THEN pr
        ELSE LET p == Unwrap(pr.val)
                 r == find_executable_in_path_by_name(p, p, path, fs)
             IN  IF r = None THEN Err(MsgCannotFind) ELSE Ok(Unwrap(r))

\* find_executable_in_path_by_env without the fallback to the bare override.
by_env_without_fallback(exec, cur, path, fs) ==
    LET p == exec
        cpr == get_current_exe_pathbuf(cur)
    IN  IF ~cpr.ok THEN cpr
        ELSE LET cp == Unwrap(cpr.val)
             IN  IF is_same_file_stem(Some(p), Some(cp)) THEN Err(SelfPretend)
                 ELSE LET r == find_executable_in_path_by_name(p, cp, path, fs)
                      IN  IF r = None THEN Err(MsgInvalidExecutable)
                          ELSE Ok(Unwrap(r))

\* find_executable_in_path_by_env without the comparison of the stems.
by_env_without_stem_check(exec, cur, path, fs) ==
    LET p == exec
        cpr == get_current_exe_pathbuf(cur)
    IN  IF ~cpr.ok THEN cpr
        ELSE LET cp == Unwrap(cpr.val)
                 r == find_executable_in_path_by_name(p, cp, path, fs)
                 r2 == IF r /= None THEN r
                       ELSE IF IsSome(Extension(p)) THEN None
                       ELSE Some(p)
             IN  IF r2 = None THEN Err(MsgInvalidExecutable)
                 ELSE Ok(Unwrap(r2))

find_executable_in_path_by_env(exec, cur, path, fs) ==
    LET p == exec
        cpr == get_current_exe_pathbuf(cur)
    IN  IF ~cpr.ok THEN cpr
        ELSE LET cp == Unwrap(cpr.val)
             IN  IF is_same_file_stem(Some(p), Some(cp)) THEN Err(SelfPretend)
                 ELSE LET r == find_executable_in_path_by_name(p, cp, path, fs)
                          r2 == IF r /= None THEN r
                                ELSE IF IsSome(Extension(p)) THEN None
                                ELSE Some(p)
                      IN  IF r2 = None THEN Err(MsgInvalidExecutable)
                          ELSE Ok(Unwrap(r2))

\* The override branch without the shortcut for an absolute path.
override_always_searched(envExec, cur, path, fs) ==
    IF envExec = None THEN Err(SelfPretend)
    ELSE find_executable_in_path_by_env(Unwrap(envExec), cur, path, fs)

\* The override branch of get_pretend_executable: Ok(path) when the override
\* decides the executable, Err("") when it leaves the decision to the search
\* by the running binary's name, Err(message) when it ends the process.
OverrideOutcome(envExec, cur, path, fs) ==
    IF envExec = None THEN Err(SelfPretend)
    ELSE IF is_absolute_path(Unwrap(envExec)) THEN Ok(Unwrap(envExec))
    ELSE find_executable_in_path_by_env(Unwrap(envExec), cur, path, fs)

\* get_pretend_executable with every failure of the override search fatal,
\* the empty sentinel included.
pretend_with_fatal_sentinel(envExec, cur, path, fs) ==
    LET o == OverrideOutcome(envExec, cur, path, fs)
    IN  IF o.ok THEN o
        ELSE IF envExec /= None THEN o
        ELSE find_executable_in_path(cur, path, fs)

\* get_pretend_executable: Ok(path), or Err(message) when error_exit! ends the
\* process with that message.
get_pretend_executable(envExec, cur, path, fs) ==
    LET o == OverrideOutcome(envExec, cur, path, fs)
    IN  IF o.ok THEN o
        ELSE IF o.msg /= SelfPretend THEN o
        ELSE find_executable_in_path(cur, path, fs)

(***************************************************************************)
(* Configuration read by main.                                             *)
(***************************************************************************)
ExistingDirs == {"base", "work"}
CurrentDir == "work"

\* fs::metadata(path).is_ok() && is_dir()
dir_exists(path) == path \in ExistingDirs

\* get_base_dir settling for the current directory when the directory the
\* variable names does not exist.
base_dir_or_current(envDir, cdOk) ==
    IF envDir /= None /\ dir_exists(Unwrap(envDir))
    THEN [ok |-> TRUE, val |-> Unwrap(envDir), msg |-> ""]
    ELSE IF cdOk
         THEN [ok |-> TRUE, val |-> CurrentDir, msg |-> ""]
         ELSE [ok |-> FALSE, val |-> "", msg |-> MsgNoCurrentDir]

\* get_base_dir: Ok(dir) or Err(message) when error_exit! ends the process.
get_base_dir(envDir, cdOk) ==
    IF envDir /= None
    THEN IF dir_exists(Unwrap(envDir))
         THEN [ok |-> TRUE, val |-> Unwrap(envDir), msg |-> ""]
         ELSE [ok |-> FALSE, val |-> "", msg |-> MsgBaseDir]
    ELSE IF cdOk
         THEN [ok |-> TRUE, val |-> CurrentDir, msg |-> ""]
         ELSE [ok |-> FALSE, val |-> "", msg |-> MsgNoCurrentDir]

IsDigit(c) == c \in {"0", "1", "2", "3", "4", "5", "6", "7", "8", "9"}

DigitVal(c) ==
    CASE c = "0" -> 0 [] c = "1" -> 1 [] c = "2" -> 2 [] c = "3" -> 3
      [] c = "4" -> 4 [] c = "5" -> 5 [] c = "6" -> 6 [] c = "7" -> 7
      [] c = "8" -> 8 [] c = "9" -> 9 [] OTHER -> 0

RECURSIVE DecimalValue(_)
DecimalValue(s) ==
    IF s = <<>> THEN 0
    ELSE 10 * DecimalValue(SubSeq(s, 1, Len(s) - 1)) + DigitVal(s[Len(s)])

\* str::parse::<u8>: an optional "+", then one or more digits, value <= 255.
\* -1 stands for the parse error.
ParseU8(s) ==
    LET body == IF Len(s) > 1 /\ s[1] = "+" THEN SubSeq(s, 2, Len(s)) ELSE s
    IN  IF body = <<>> THEN -1
        ELSE IF \E i \in 1..Len(body) : ~IsDigit(body[i]) THEN -1
        ELSE IF DecimalValue(body) > U8Max THEN -1
        ELSE DecimalValue(body)

\* get_max_trial settling for the default when the value does not parse.
max_trial_or_default(envTrial) ==
    IF envTrial = None THEN DEFAULT_MAX_TRIAL
    ELSE IF ParseU8(Unwrap(envTrial)) < 0 THEN DEFAULT_MAX_TRIAL
    ELSE ParseU8(Unwrap(envTrial))

\* get_max_trial: the budget, or -1 when error_exit! ends the process.
get_max_trial(envTrial) ==
    IF envTrial = None THEN DEFAULT_MAX_TRIAL ELSE ParseU8(Unwrap(envTrial))

(***************************************************************************)
(* The child and its exit status.                                          *)
(***************************************************************************)
Signal == -1
ExitCodes == {0, 1, 2}
Statuses == ExitCodes \cup {Signal}
ScratchNames == {"t1", "t2"}

\* ExitStatus::success
Success(st) == st = 0

\* ExitStatus::code().unwrap_or(1)
CodeOr1(st) == IF st = Signal THEN 1 ELSE st

\* The program image Command::new is given: the resolved path when it is
\* absolute, the shell otherwise.
ShImage == MkPath("/bin", <<"s", "h">>)
LaunchImage(exe) == IF is_absolute_path(exe) THEN exe ELSE ShImage

\* Whether Command::status() can spawn the child: only when the image it is
\* given, the resolved path or the shell, is an executable on disk.
CanSpawn(exe, fs) == LaunchImage(exe) \in fs

\* The words of the command string the shell is given with -c: the resolved
\* program alone.
CommandWords(exe) == <<exe>>

\* The arguments the program receives.  Launched directly it is given the
\* forwarded arguments; under `sh -c <executable> <args..>` the forwarded
\* arguments become the shell's $0, $1, .. and the program is given only the
\* words that follow its name in the command string.
ProgramArgs(exe, forwarded) ==
    IF is_absolute_path(exe) THEN forwarded ELSE Tail(CommandWords(exe))

\* A child whose TMPDIR is left as the tool's own.
inherited_tmpdir(td) == "/tmp"

\* The value of TMPDIR in the child's environment: the path of the TempDir.
TmpdirEnv(td) == Unwrap(td)

\* What `sh -c <executable>` runs, as the shell resolves it: nothing for the
\* empty command, the first match on PATH for a bare name.
ShResolves(exe, path, fs) ==
    IF exe.name = <<>> THEN None
    ELSE IF exe.dir /= NoDir THEN Some(exe)
    ELSE Which(exe.name, path, fs)

\* The statuses the child can end with.
ChildStatuses(exe, path, fs) ==
    IF is_absolute_path(exe) THEN Statuses
    ELSE IF exe.name = <<>> THEN {0}
    ELSE IF exe.dir = NoDir /\ ShResolves(exe, path, fs) = None
         THEN Statuses \cup {ShellNotFound}
    ELSE Statuses

\* The program that ends up running as (or under) the child.
RunningProgram(exe, path, fs) ==
    IF is_absolute_path(exe) THEN Some(exe) ELSE ShResolves(exe, path, fs)

(***************************************************************************)
(* The inputs one run of the tool can be given.                            *)
(***************************************************************************)
ExeLocations == {MkPath(d, n) : d \in AbsDirs, n \in Names}
SearchPaths ==
    {<<>>} \cup {<<d>> : d \in AbsDirs}
           \cup {<<pr[1], pr[2]>> : pr \in {q \in AbsDirs \X AbsDirs : q[1] /= q[2]}}
Overrides ==
    {None} \cup {Some(MkPath(d, n)) : d \in AbsDirs \cup RelDirs \cup {NoDir},
                                      n \in Names}
           \cup {Some(MkPath(NoDir, NameEmpty))}
ValidTrialStrings ==
    {<<"0">>, <<"1">>, <<"2">>, <<"+", "1">>, <<"2", "5", "4">>,
     <<"2", "5", "5">>}
InvalidTrialStrings == {<<"2", "5", "6">>, <<"-", "1">>, <<>>, <<"a">>, <<"+">>}
BaseDirStrings == {"base", "missing"}
ArgLists == {<<>>, <<"a b">>, <<"-o", "a b">>}

\* One installed layout, used where the inputs of the loop vary.
HomeFiles ==
    {MkPath("/a", NameRt), MkPath("/b", NameRt), MkPath("/b", NameCc), ShImage}
HomeOverrides ==
    {None, Some(MkPath(NoDir, NameCc)), Some(MkPath("/a", NameCc)),
     Some(MkPath(NoDir, NameRt))}

InitProgram ==
    /\ pc = "resolve"
    /\ executable = None
    /\ cwd = ""
    /\ max_trial = 0
    /\ retry_times = 0
    /\ last_exit_code = 0
    /\ status = 0
    /\ tmp_dir = None
    /\ baseEntries = foreign
    /\ child = None
    /\ stdout = <<>>
    /\ stderr = <<>>
    /\ exitCode = None
    /\ launched = 0
    /\ successAt = 0
    /\ usedNames = {}
    /\ created = 0

\* The resolver's inputs vary; the budget is 0.
InitResolverInputs ==
    /\ envExecutable \in Overrides
    /\ searchPath \in SearchPaths
    /\ files \in {fs \cup {ShImage} : fs \in SUBSET ExeLocations}
    /\ currentExe \in {None} \cup
           {Some(p) : p \in {q \in files : q.name \in {NameRt, NameRtExe}}}
    /\ envMaxTrial = Some(<<"0">>)
    /\ envBaseDir = None
    /\ currentDirOk = TRUE
    /\ overflowChecks = TRUE
    /\ foreign = {"t2"}
    /\ args = <<"-v">>

\* The budget and the build vary; the layout is fixed.
InitLoopInputs ==
    /\ envExecutable \in {None, Some(MkPath(NoDir, NameCc))}
    /\ searchPath = <<"/b", "/a">>
    /\ files = HomeFiles
    /\ currentExe = Some(MkPath("/a", NameRt))
    /\ envMaxTrial \in {None} \cup {Some(s) : s \in ValidTrialStrings}
    /\ envBaseDir = None
    /\ currentDirOk = TRUE
    /\ overflowChecks \in BOOLEAN
    /\ foreign = {}
    /\ args = <<>>

\* The configuration varies; the layout is fixed and the budget small.
InitConfigInputs ==
    /\ envExecutable \in HomeOverrides
    /\ searchPath \in {<<"/b", "/a">>, <<"/a">>}
    /\ files \in {HomeFiles, HomeFiles \ {ShImage}}
    /\ currentExe = Some(MkPath("/a", NameRt))
    /\ envMaxTrial \in {None, Some(<<"1">>)} \cup
                       {Some(s) : s \in InvalidTrialStrings}
    /\ envBaseDir \in {None} \cup {Some(d) : d \in BaseDirStrings}
    /\ currentDirOk \in BOOLEAN
    /\ overflowChecks = TRUE
    /\ foreign \in {{}, {"t1"}}
    /\ args \in ArgLists

Init == (InitResolverInputs \/ InitLoopInputs \/ InitConfigInputs) /\ InitProgram

(***************************************************************************)
(* main, one action per step.                                              *)
(***************************************************************************)
\* error_exit!: the message on the error stream, then process::exit(1).
ErrorExit(msg) ==
    /\ stderr' = Append(stderr, msg)
    /\ exitCode' = Some(1)
    /\ pc' = "fatal"

\* A panic on the main thread: the message on the error stream, exit code 101.
Panic(msg) ==
    /\ stderr' = Append(stderr, msg)
    /\ exitCode' = Some(PanicExitCode)
    /\ pc' = "panicked"

\* let executable = get_pretend_executable();
Resolve ==
    /\ pc = "resolve"
    /\ LET r == get_pretend_executable(envExecutable, currentExe, searchPath, files)
       IN  IF r.ok
           THEN /\ executable' = r.val
                /\ pc' = "basedir"
                /\ UNCHANGED <<stderr, exitCode>>
           ELSE /\ ErrorExit(r.msg)
                /\ UNCHANGED executable
    /\ UNCHANGED <<envVars, cwd, max_trial, retry_times, last_exit_code, status,
                   tmp_dir, baseEntries, child, stdout, launched, successAt,
                   usedNames, created>>

\* let cwd = get_base_dir();
GetBaseDir ==
    /\ pc = "basedir"
    /\ LET r == get_base_dir(envBaseDir, currentDirOk)
       IN  IF r.ok
           THEN /\ cwd' = r.val
                /\ pc' = "maxtrial"
                /\ UNCHANGED <<stderr, exitCode>>
           ELSE /\ ErrorExit(r.msg)
                /\ UNCHANGED cwd
    /\ UNCHANGED <<envVars, executable, max_trial, retry_times, last_exit_code,
                   status, tmp_dir, baseEntries, child, stdout, launched,
                   successAt, usedNames, created>>

\* let max_trial = get_max_trial(); let mut retry_times: u8 = 0;
GetMaxTrial ==
    /\ pc = "maxtrial"
    /\ LET r == get_max_trial(envMaxTrial)
       IN  IF r >= 0
           THEN /\ max_trial' = r
                /\ retry_times' = 0
                /\ pc' = "loop"
                /\ UNCHANGED <<stderr, exitCode>>
           ELSE /\ ErrorExit(MsgMaxTrial)
                /\ UNCHANGED <<max_trial, retry_times>>
    /\ UNCHANGED <<envVars, executable, cwd, last_exit_code, status, tmp_dir,
                   baseEntries, child, stdout, launched, successAt, usedNames,
                   created>>

\* The lines "Retry attempt: N" the top of the loop writes.
RetryLine(out, n) == IF n > 0 THEN Append(out, n) ELSE out

\* A creation primitive that does not look at what the base directory holds.
AnyName(entries) == ScratchNames

\* The names TempDir::new_in can give the new directory: any name that is not
\* an entry of the base directory.
FreshNames(entries) == ScratchNames \ entries

\* The top of the loop, into try_run_with_new_temp: the retry line, then
\* TempDir::new_in(&cwd), which creates the directory or fails.
LoopTop ==
    /\ pc = "loop"
    /\ launched < MaxLaunches
    /\ stdout' = RetryLine(stdout, retry_times)
    /\ \/ /\ \E n \in FreshNames(baseEntries) :
                /\ tmp_dir' = Some(n)
                /\ baseEntries' = baseEntries \cup {n}
          /\ created' = created + 1
          /\ pc' = "spawn"
          /\ UNCHANGED <<stderr, exitCode>>
       \/ /\ ErrorExit(MsgTempDir)
          /\ UNCHANGED <<tmp_dir, baseEntries, created>>
    /\ UNCHANGED <<envVars, executable, cwd, max_trial, retry_times,
                   last_exit_code, status, child, launched, successAt, usedNames>>

\* A TempDir whose directory is left behind.
KeepEntries(entries, td) == entries

\* The entries of the base directory once the TempDir is dropped.
DropEntries(entries, td) == IF td = None THEN entries ELSE entries \ {Unwrap(td)}

\* Command::new(..).env("TMPDIR", tmp_path)...status(): the child starts, or
\* .expect panics and the unwinding drops the TempDir.
Spawn ==
    /\ pc = "spawn"
    /\ IF CanSpawn(Unwrap(executable), files)
       THEN /\ child' = Some([image |-> LaunchImage(Unwrap(executable)),
                              program |-> RunningProgram(Unwrap(executable),
                                                         searchPath, files),
                              argv |-> ProgramArgs(Unwrap(executable), args),
                              tmpdir |-> TmpdirEnv(tmp_dir)])
            /\ launched' = launched + 1
            /\ pc' = "child"
            /\ UNCHANGED <<stderr, exitCode, tmp_dir, baseEntries, usedNames>>
       ELSE /\ Panic(MsgLaunch)
            /\ baseEntries' = DropEntries(baseEntries, tmp_dir)
            /\ usedNames' = usedNames \cup {Unwrap(tmp_dir)}
            /\ tmp_dir' = None
            /\ UNCHANGED <<child, launched>>
    /\ UNCHANGED <<envVars, executable, cwd, max_trial, retry_times,
                   last_exit_code, status, stdout, successAt, created>>

\* A launch that does not wait for the child: the status is taken while the
\* child still runs.
ChildNotAwaited ==
    /\ pc = "child"
    /\ \E st \in ChildStatuses(Unwrap(executable), searchPath, files) :
          /\ status' = st
          /\ successAt' = IF Success(st) /\ successAt = 0 THEN launched
                          ELSE successAt
    /\ pc' = "drop"
    /\ UNCHANGED <<envVars, executable, cwd, max_trial, retry_times,
                   last_exit_code, tmp_dir, baseEntries, child, stdout, stderr,
                   exitCode, launched, usedNames, created>>

\* The child ends and status() returns its ExitStatus.
ChildExit ==
    /\ pc = "child"
    /\ \E st \in ChildStatuses(Unwrap(executable), searchPath, files) :
          /\ status' = st
          /\ successAt' = IF Success(st) /\ successAt = 0 THEN launched
                          ELSE successAt
    /\ child' = None
    /\ pc' = "drop"
    /\ UNCHANGED <<envVars, executable, cwd, max_trial, retry_times,
                   last_exit_code, tmp_dir, baseEntries, stdout, stderr,
                   exitCode, launched, usedNames, created>>

\* try_run_with_new_temp returns: the TempDir goes out of scope and its
\* directory is removed.
DropTempDir ==
    /\ pc = "drop"
    /\ baseEntries' = DropEntries(baseEntries, tmp_dir)
    /\ usedNames' = usedNames \cup {Unwrap(tmp_dir)}
    /\ tmp_dir' = None
    /\ pc' = "account"
    /\ UNCHANGED <<envVars, executable, cwd, max_trial, retry_times,
                   last_exit_code, status, child, stdout, stderr, exitCode,
                   launched, successAt, created>>

\* retry_times > max_trial
BudgetSpent(rt, mt) == rt > mt

\* retry_times += 1; last_exit_code = ...; if status.success() || retry_times >
\* max_trial { break; }.  The increment of the u8 at 255 panics in a build with
\* overflow checks and wraps to 0 in a build without.
LoopStep ==
    /\ pc = "account"
    /\ IF retry_times = U8Max /\ overflowChecks
       THEN /\ Panic(MsgOverflow)
            /\ UNCHANGED <<retry_times, last_exit_code>>
       ELSE /\ retry_times' = (retry_times + 1) % (U8Max + 1)
            /\ last_exit_code' = CodeOr1(status)
            /\ pc' = IF Success(status) \/ BudgetSpent(retry_times', max_trial)
                     THEN "exit" ELSE "loop"
            /\ UNCHANGED <<stderr, exitCode>>
    /\ UNCHANGED <<envVars, executable, cwd, max_trial, status, tmp_dir,
                   baseEntries, child, stdout, launched, successAt, usedNames,
                   created>>

\* process::exit(last_exit_code);
ProcessExit ==
    /\ pc = "exit"
    /\ exitCode' = Some(last_exit_code)
    /\ pc' = "done"
    /\ UNCHANGED <<envVars, executable, cwd, max_trial, retry_times,
                   last_exit_code, status, tmp_dir, baseEntries, child, stdout,
                   stderr, launched, successAt, usedNames, created>>

Next ==
    \/ Resolve
    \/ GetBaseDir
    \/ GetMaxTrial
    \/ LoopTop
    \/ Spawn
    \/ ChildExit
    \/ DropTempDir
    \/ LoopStep
    \/ ProcessExit

Spec == Init /\ [][Next]_vars

TypeOK ==
    /\ pc \in {"resolve", "basedir", "maxtrial", "loop", "spawn", "child",
               "drop", "account", "exit", "done", "fatal", "panicked"}
    /\ retry_times \in 0..U8Max
    /\ max_trial \in 0..U8Max
    /\ launched \in 0..MaxLaunches
    /\ baseEntries \subseteq ScratchNames

(***************************************************************************)
(* Vocabulary of the properties.                                           *)
(***************************************************************************)
Exited == pc \in {"done", "fatal", "panicked"}
InLoop == pc \in {"loop", "spawn", "child", "drop", "account", "exit"}
LastErr == IF stderr = <<>> THEN "" ELSE stderr[Len(stderr)]
\* The loop ended after a child run: by process::exit or by the overflow panic.
EndedAfterChild == pc = "done" \/ (pc = "panicked" /\ LastErr = MsgOverflow)
NoOverride == envExecutable = None
AbsoluteOverride ==
    envExecutable /= None /\ is_absolute_path(Unwrap(envExecutable))
\* A non-absolute override with the stem of the running binary.
SelfNamedOverride ==
    /\ envExecutable /= None
    /\ ~is_absolute_path(Unwrap(envExecutable))
    /\ is_same_file_stem(envExecutable, currentExe)
PathDirs == {searchPath[i] : i \in 1..Len(searchPath)}
\* The executables on PATH with the running binary's file name, elsewhere.
Others ==
    IF currentExe = None THEN {}
    ELSE {e \in files : /\ e.dir \in PathDirs
                        /\ e.name = Unwrap(currentExe).name
                        /\ e /= Unwrap(currentExe)}

(***************************************************************************)
(* C1.  With budget B and a program whose every run exits non-zero, the    *)
(* loop launches the child exactly 1+B times, then the process exits with  *)
(* the exit code of the last run.                                          *)
(***************************************************************************)
C1_ExactlyOnePlusBudget ==
    (successAt = 0 /\ status /= Signal) =>
        /\ (InLoop \/ EndedAfterChild) => launched <= max_trial + 1
        /\ EndedAfterChild => /\ launched = max_trial + 1
                              /\ exitCode = Some(status)

(***************************************************************************)
(* C2.  When the child first exits 0 on attempt k, exactly k attempts are  *)
(* made, no child is launched after the successful one, and the process    *)
(* exits with code 0.                                                      *)
(***************************************************************************)
C2_StopsAtFirstSuccess ==
    successAt /= 0 =>
        /\ launched = successAt
        /\ Exited => exitCode = Some(0)

(***************************************************************************)
(* C3.  With no override, when PATH holds an executable E with the running *)
(* binary's name at another location, resolution succeeds and returns such *)
(* an E, never the running binary, wherever the two stand in PATH.         *)
(***************************************************************************)
C3_FindsTheOther ==
    (NoOverride /\ Others /= {} /\ pc /= "resolve") =>
        /\ executable /= None
        /\ Unwrap(executable) \in Others

(***************************************************************************)
(* C4.  Whatever the override and the search path, a successful resolution *)
(* never designates the running binary.                                    *)
(***************************************************************************)
C4_NeverSelf ==
    (executable /= None /\ currentExe /= None) => executable /= currentExe

\* C4 as amended: with no override or a non-absolute one, a successful
\* resolution is never the running binary's own location, and the program the
\* child runs is not the running binary.
C4_NeverSelfUnlessAbsolute ==
    (executable /= None /\ currentExe /= None /\ ~AbsoluteOverride) =>
        /\ executable /= currentExe
        /\ child /= None => Unwrap(child).program /= currentExe

C4_Witness ==
    /\ NoOverride
    /\ child /= None
    /\ currentExe /= None
    /\ Unwrap(currentExe).dir \in PathDirs

(***************************************************************************)
(* C5.  An absolute override is returned unchanged, whatever the search    *)
(* path holds and with no self-check, also when its stem is the running    *)
(* binary's.                                                               *)
(***************************************************************************)
C5_AbsoluteVerbatim ==
    (AbsoluteOverride /\ pc /= "resolve") => executable = envExecutable

C5_Witness ==
    /\ AbsoluteOverride
    /\ envExecutable = currentExe
    /\ Others /= {}
    /\ executable = currentExe
    /\ child /= None

(***************************************************************************)
(* C6.  A non-absolute override with the running binary's stem makes       *)
(* resolution fail with the empty sentinel, and that is fatal and silent:  *)
(* a non-zero exit, no child, no message, whatever the search path holds.  *)
(***************************************************************************)
C6_SentinelFatalAndSilent ==
    (SelfNamedOverride /\ pc /= "resolve") =>
        /\ pc = "fatal"
        /\ exitCode /= None /\ exitCode /= Some(0)
        /\ launched = 0
        /\ stderr = <<>>

\* C6 as amended: the override search fails with the empty sentinel, which is
\* not fatal: the driver goes on to search PATH for the running binary's file
\* name.  When the first match is another location it is the resolved program;
\* otherwise the process exits 1 with the "Cannot find which executable"
\* diagnostic, having created no directory and launched no child.
C6_SentinelFallsBack ==
    (SelfNamedOverride /\ pc /= "resolve") =>
        LET sentinel == find_executable_in_path_by_env(
                            Unwrap(envExecutable), currentExe, searchPath, files)
            first == Which(Unwrap(currentExe).name, searchPath, files)
        IN  /\ sentinel = Err(SelfPretend)
            /\ IF first /= None /\ first /= currentExe
               THEN executable = first
               ELSE /\ pc = "fatal"
                    /\ stderr = <<MsgCannotFind>>
                    /\ exitCode = Some(1)
                    /\ launched = 0
                    /\ created = 0

C6_Witness == SelfNamedOverride /\ child /= None /\ launched = 1

(***************************************************************************)
(* C7.  When PATH holds no executable with the running binary's file name  *)
(* other than the running binary, then with no override and with an        *)
(* override naming the running binary the tool launches no child, creates  *)
(* no scratch directory, writes nothing to standard output, writes a       *)
(* non-empty diagnostic to the error stream and exits with a failure.      *)
(***************************************************************************)
C7_NothingToPretend ==
    (/\ currentExe /= None
     /\ Others = {}
     /\ NoOverride \/ SelfNamedOverride
     /\ pc /= "resolve") =>
        /\ pc = "fatal"
        /\ launched = 0
        /\ created = 0
        /\ stdout = <<>>
        /\ stderr /= <<>>
        /\ \A i \in 1..Len(stderr) : stderr[i] /= ""
        /\ exitCode /= None /\ exitCode /= Some(0)

C7_Witness ==
    /\ SelfNamedOverride
    /\ Others = {}
    /\ Which(Unwrap(currentExe).name, searchPath, files) = currentExe
    /\ pc = "fatal"

(***************************************************************************)
(* C8.  At most one scratch directory of the tool exists at any time, and  *)
(* an attempt's directory is removed on every way out of the attempt       *)
(* (child success, child failure, launch failure) before the next one is   *)
(* created or the process exits.                                           *)
(***************************************************************************)
C8_OneScratchDir ==
    LET own == baseEntries \ foreign
    IN  /\ Cardinality(own) <= 1
        /\ own = (IF tmp_dir = None THEN {} ELSE {Unwrap(tmp_dir)})
        /\ (pc \in {"loop", "account", "exit"} \/ Exited) => own = {}

C8_Witness ==
    /\ pc = "panicked"
    /\ LastErr = MsgLaunch
    /\ created = 1
    /\ usedNames /= {}

(***************************************************************************)
(* C9.  The scratch directory of each attempt has a name distinct from the *)
(* scratch directory of every earlier attempt of the run.                  *)
(***************************************************************************)
C9_NamesNeverRepeat ==
    tmp_dir /= None => Unwrap(tmp_dir) \notin usedNames

\* C9 as amended: each attempt's scratch directory is created under a name
\* that is not an entry of the base directory at that moment; the name of an
\* earlier attempt's directory, already deleted, can be given again.
C9_NameFreshAtCreation ==
    [][(tmp_dir = None /\ tmp_dir' /= None) =>
           /\ Unwrap(tmp_dir') \notin baseEntries
           /\ baseEntries' = baseEntries \cup {Unwrap(tmp_dir')}]_vars

C9_Witness ==
    /\ tmp_dir /= None
    /\ Unwrap(tmp_dir) \in usedNames
    /\ foreign /= {}

(***************************************************************************)
(* C10.  "Retry attempt: N" is written exactly once before each relaunch   *)
(* and never before the first attempt: N = 1, 2, ... in order, B lines in  *)
(* all for an always-failing program with budget B.                        *)
(***************************************************************************)
C10_RetryLines ==
    /\ (pc \in {"spawn", "child", "drop", "account", "exit"} \/ EndedAfterChild) =>
           /\ Len(stdout) = created - 1
           /\ \A i \in 1..Len(stdout) : stdout[i] = i
    /\ (pc = "done" /\ successAt = 0) => Len(stdout) = max_trial

(***************************************************************************)
(* C11.  With an invalid configuration (RANDOMTEMP_BASEDIR set but not an  *)
(* existing directory, or RANDOMTEMP_MAXTRIAL set but not an integer of    *)
(* 0..255) the process exits 1 after exactly one non-empty diagnostic,     *)
(* writes nothing to standard output, creates no scratch directory and     *)
(* launches no child.                                                      *)
(***************************************************************************)
BadBaseDir == envBaseDir /= None /\ ~dir_exists(Unwrap(envBaseDir))
BadMaxTrial == envMaxTrial /= None /\ ParseU8(Unwrap(envMaxTrial)) < 0

C11_InvalidConfigFatal ==
    (BadBaseDir \/ BadMaxTrial) =>
        /\ pc \in {"resolve", "basedir", "maxtrial", "fatal"}
        /\ stdout = <<>>
        /\ created = 0
        /\ launched = 0
        /\ pc = "fatal" => /\ exitCode = Some(1)
                           /\ Len(stderr) = 1
                           /\ stderr[1] /= ""
        /\ pc /= "fatal" => stderr = <<>> /\ exitCode = None

C11_Witness ==
    /\ envMaxTrial = Some(<<"-", "1">>)
    /\ ~BadBaseDir
    /\ pc = "fatal"
    /\ stderr = <<MsgMaxTrial>>

(***************************************************************************)
(* C16.  When RANDOMTEMP_BASEDIR is set and names no existing directory,   *)
(* the tool ends fatally before any executable resolution is performed,    *)
(* so the diagnostic is the base-directory one even when resolution would  *)
(* fail too, and before any child is executed.                             *)
(***************************************************************************)
C16_BaseDirBeforeResolution ==
    BadBaseDir =>
        /\ pc \in {"resolve", "fatal"}
        /\ executable = None
        /\ pc = "fatal" => stderr = <<MsgBaseDir>>
        /\ launched = 0

\* C16 as amended: the tool ends fatally before any scratch directory is
\* created and any child is executed, but after the executable resolution:
\* the diagnostic is the base-directory one when resolution succeeds and the
\* resolution's own when resolution fails.
C16_BaseDirAfterResolution ==
    BadBaseDir =>
        /\ pc \in {"resolve", "basedir", "fatal"}
        /\ launched = 0
        /\ created = 0
        /\ pc = "fatal" =>
              /\ exitCode = Some(1)
              /\ IF executable /= None
                 THEN stderr = <<MsgBaseDir>>
                 ELSE stderr \in {<<MsgCannotFind>>, <<MsgInvalidExecutable>>,
                                  <<MsgNoCurrentExe>>}

C16_Witness ==
    /\ BadBaseDir
    /\ pc = "fatal"
    /\ executable = None
    /\ stderr = <<MsgCannotFind>>

(***************************************************************************)
(* C12.  When the child cannot be launched (program image missing or not   *)
(* executable), under the direct launch of an absolute path and under the  *)
(* launch of a bare name through the shell, the tool aborts at once: the   *)
(* failed launch is not counted as an attempt, no further attempt is made  *)
(* and no "Retry attempt" line is printed.                                 *)
(***************************************************************************)
C12_LaunchFailureAborts ==
    /\ (pc = "panicked" /\ LastErr = MsgLaunch) =>
           /\ retry_times = launched
           /\ Len(stdout) = launched
    /\ status = ShellNotFound =>
           /\ launched <= 1
           /\ stdout = <<>>

(***************************************************************************)
(* C13.  A child that ends without a numeric exit code is treated as one   *)
(* that exited with code 1: the attempt is a failure, retried while budget *)
(* remains, and when it is the final attempt the process exits with 1.     *)
(***************************************************************************)
C13_SignalIsExitOne ==
    status = Signal =>
        /\ pc \in {"loop", "exit", "done"} => last_exit_code = 1
        /\ pc = "loop" => launched <= max_trial
        /\ pc \in {"exit", "done"} => launched = max_trial + 1
        /\ EndedAfterChild => exitCode = Some(1)

(***************************************************************************)
(* C14.  For a non-absolute override whose stem is not the running         *)
(* binary's: a match of the search path at another location than the       *)
(* running binary is returned; with no match and no suffix the bare        *)
(* override is returned unresolved; with no match and a suffix resolution  *)
(* fails fatally with the "invalid executable" error and no child is       *)
(* launched.                                                               *)
(***************************************************************************)
OtherNamedOverride ==
    /\ envExecutable /= None
    /\ currentExe /= None
    /\ ~is_absolute_path(Unwrap(envExecutable))
    /\ ~is_same_file_stem(envExecutable, currentExe)

C14_OverrideSearch ==
    (OtherNamedOverride /\ pc /= "resolve") =>
        LET p == Unwrap(envExecutable)
            m == Which(p.name, searchPath, files)
        IN  IF m /= None
            THEN m /= currentExe => executable = m
            ELSE IF Extension(p) = None
            THEN executable = envExecutable
            ELSE /\ pc = "fatal"
                 /\ stderr = <<MsgInvalidExecutable>>
                 /\ exitCode = Some(1)
                 /\ launched = 0

C14_Witness ==
    /\ OtherNamedOverride
    /\ Unwrap(envExecutable).name /= <<>>
    /\ executable = envExecutable
    /\ child /= None

(***************************************************************************)
(* C15.  When the resolved program is a bare name launched through the     *)
(* command interpreter, every forwarded argument reaches the child as one  *)
(* token in its original position: none is split, dropped or merged.       *)
(***************************************************************************)
C15_ArgsReachTheChild ==
    (/\ child /= None
     /\ ~is_absolute_path(Unwrap(executable))
     /\ Unwrap(executable).name /= <<>>) =>
        Unwrap(child).argv = args

(***************************************************************************)
(* C17.  Attempts are strictly sequential: at most one child runs at any   *)
(* time, and an attempt's scratch directory is created and its child       *)
(* launched only after the previous attempt's child has ended and its      *)
(* scratch directory has been released.                                    *)
(***************************************************************************)
C17_Sequential ==
    /\ child /= None => /\ pc = "child"
                        /\ launched = created
    /\ pc = "loop" => /\ child = None
                      /\ tmp_dir = None
                      /\ baseEntries = foreign
                      /\ launched = created
    /\ pc = "spawn" => /\ child = None
                       /\ created = launched + 1
                       /\ baseEntries \ foreign = {Unwrap(tmp_dir)}

C17_Witness ==
    /\ child /= None
    /\ created = 3
    /\ Cardinality(usedNames) = 2

(***************************************************************************)
(* C18.  While a child runs, the temp-directory variable of its            *)
(* environment names the scratch directory created for the current         *)
(* attempt, and that directory exists from before the launch until after   *)
(* the child has ended.                                                    *)
(***************************************************************************)
C18_TmpdirIsTheScratchDir ==
    /\ child /= None => /\ tmp_dir /= None
                        /\ Unwrap(child).tmpdir = Unwrap(tmp_dir)
                        /\ Unwrap(child).tmpdir \in baseEntries \ foreign
    /\ pc \in {"spawn", "drop"} => /\ tmp_dir /= None
                                   /\ Unwrap(tmp_dir) \in baseEntries \ foreign

C18_Witness ==
    /\ child /= None
    /\ launched = 2
    /\ foreign /= {}
    /\ Unwrap(child).tmpdir \in usedNames

(***************************************************************************)
(* C19.  The attempt counter, an unsigned 8-bit integer, never overflows   *)
(* or wraps for any budget in 0..255, so for an always-failing child the   *)
(* stop condition becomes true and the loop ends.                          *)
(***************************************************************************)
C19_CounterNeverOverflows ==
    /\ LastErr /= MsgOverflow
    /\ pc \in {"loop", "exit", "done"} => retry_times = launched

(***************************************************************************)
(* C20.  A non-absolute override with the running binary's stem is handled *)
(* as if no override were given: the resolved program, or the fatal error  *)
(* and its message, is that of the search by the running binary's own file *)
(* name.                                                                   *)
(***************************************************************************)
C20_SelfOverrideAsNoOverride ==
    (SelfNamedOverride /\ pc /= "resolve") =>
        LET r == find_executable_in_path(currentExe, searchPath, files)
        IN  IF r.ok
            THEN executable = r.val
            ELSE /\ executable = None
                 /\ pc = "fatal"
                 /\ stderr = <<r.msg>>
                 /\ exitCode = Some(1)

C20_Witness ==
    /\ SelfNamedOverride
    /\ Unwrap(envExecutable).name /= Unwrap(currentExe).name
    /\ Which(Unwrap(envExecutable).name, searchPath, files) /= None
    /\ child /= None

====
